---- MODULE Spec2Model ----
(***************************************************************************)
(* Model of the context-aware research chatbot: the query router and the   *)
(* tools (src/tools.py) and the orchestrator (src/chatbot.py).             *)
(*                                                                         *)
(* Texts are TLA+ strings; a character is a string of length one.          *)
(***************************************************************************)
EXTENDS Integers, Sequences, FiniteSets, TLC

VARIABLES
    math_keywords,   \* QueryRouter.math_keywords
    web_keywords,    \* QueryRouter.web_keywords
    rag_keywords,    \* QueryRouter.rag_keywords
    rq,              \* router harness: the query under test
    rfirst,          \* router harness: category returned by the first route(rq)
    rlast,           \* router harness: the latest call and what it returned
    rbetween,        \* router harness: another call was made since the first route(rq)
    cexpr,           \* calculator harness: the expression under test
    cout,            \* calculator harness: what calculate(cexpr) came to
    tavily_client,   \* WebSearchTool.tavily_client is set
    serp_api,        \* WebSearchTool.serp_api is set
    rag_tool,        \* ContextAwareChatbot.rag_tool is set
    memories,        \* ContextAwareChatbot.memories: session id -> messages
    db_sessions,     \* the rows of chat_sessions
    db_logs,         \* the rows of conversation_logs, in insertion order
    issued,          \* the session ids create_session has returned
    nchats,          \* the number of chat() calls made
    last,            \* the latest call on the chatbot and what it returned
    now,             \* the clock of the database, in days
    heap,            \* concurrent chats: the memory objects made so far, their messages
    refs,            \* concurrent chats: ContextAwareChatbot.memories, session id -> object
    threads,         \* concurrent chats: where each call is, and what it holds
    metrics,         \* MetricsCollector: total_requests and error_count
    recorders,       \* concurrent record_request calls: where each call is
    eval_dataset,    \* run_evaluation: the dataset
    eval_pos,        \* run_evaluation: the number of cases processed, -1 before the run
    eval_session,    \* run_evaluation: the session id of the run
    eval_results,    \* run_evaluation: results
    eval_scores,     \* run_evaluation: scores
    eval_saved,      \* the rows of evaluation_results
    eval_report      \* run_evaluation: the report returned

routerState == <<math_keywords, web_keywords, rag_keywords>>
routerHarness == <<rq, rfirst, rlast, rbetween>>
calcHarness == <<cexpr, cout>>
chatState == <<tavily_client, serp_api, rag_tool, memories, db_sessions, db_logs,
               issued, nchats, last>>
concState == <<heap, refs, threads>>
metricsState == <<metrics, recorders>>
evalState == <<eval_dataset, eval_pos, eval_session, eval_results, eval_scores,
               eval_saved, eval_report>>
extState == <<now, concState, metricsState, evalState>>
vars == <<math_keywords, web_keywords, rag_keywords, rq, rfirst, rlast, rbetween,
          cexpr, cout, tavily_client, serp_api, rag_tool, memories, db_sessions,
          db_logs, issued, nchats, last, now, heap, refs, threads, metrics, recorders,
          eval_dataset, eval_pos, eval_session, eval_results, eval_scores, eval_saved,
          eval_report>>

(***************************************************************************)
(* Bounds                                                                  *)
(***************************************************************************)
MaxFrags == 3        \* a router query is made of at most MaxFrags fragments
MaxChats == 1        \* the number of chat() calls of a behaviour
MaxCalcFrags == 3    \* a calculator input is made of at most MaxCalcFrags fragments
MaxAbs == 30000      \* the largest absolute value of a number the model computes
MaxDen == 16         \* the largest denominator of a float the model computes
MaxDigits == 5       \* the longest number literal the model evaluates
MaxWindowChats == 11 \* the number of chat() calls of a behaviour of the window harness

(***************************************************************************)
(* Text helpers: what the str methods and the re module do                 *)
(***************************************************************************)
CharAt(s, i) == SubSeq(s, i, i)

\* the upper-case ASCII letters and their lower-case forms
LowerTable ==
    [ A |-> "a", B |-> "b", C |-> "c", D |-> "d", E |-> "e", F |-> "f", G |-> "g",
      H |-> "h", I |-> "i", J |-> "j", K |-> "k", L |-> "l", M |-> "m", N |-> "n",
      O |-> "o", P |-> "p", Q |-> "q", R |-> "r", S |-> "s", T |-> "t", U |-> "u",
      V |-> "v", W |-> "w", X |-> "x", Y |-> "y", Z |-> "z" ]

\* str.lower() on one (ASCII) character
LowerChar(c) == IF c \in DOMAIN LowerTable THEN LowerTable[c] ELSE c

RECURSIVE Lower(_)
\* str.lower()
Lower(s) == IF s = "" THEN "" ELSE LowerChar(CharAt(s, 1)) \o Lower(Tail(s))

\* the Python expression  k in s  for strings
Contains(s, k) ==
    \E i \in 1..(Len(s) - Len(k) + 1) : SubSeq(s, i, i + Len(k) - 1) = k

\* any(keyword in s for keyword in keywords)
AnyKeyword(s, keywords) == \E k \in keywords : Contains(s, k)

\* regex class \d (ASCII digits)
IsDigit(c) == c \in {"0", "1", "2", "3", "4", "5", "6", "7", "8", "9"}
\* regex class \s (ASCII whitespace expressible in a TLA+ string)
IsSpace(c) == c \in {" ", "\t", "\n", "\r", "\f"}

RECURSIVE SkipSpace(_, _)
\* the first position >= i of s that holds no whitespace (Len(s)+1 if none): \s*
SkipSpace(s, i) ==
    IF i <= Len(s) /\ IsSpace(CharAt(s, i)) THEN SkipSpace(s, i + 1) ELSE i

\* the operator class [+\-*/] of the router's pattern
RouterOps == {"+", "-", "*", "/"}

\* re.search(r'\d+\s*[+\-*/]\s*\d+', query) finds a match
MathPattern(query) ==
    \E i \in 1..Len(query) :
        /\ IsDigit(CharAt(query, i))
        /\ LET k == SkipSpace(query, i + 1)
           IN  /\ k <= Len(query)
               /\ CharAt(query, k) \in RouterOps
               /\ LET m == SkipSpace(query, k + 1)
                  IN  m <= Len(query) /\ IsDigit(CharAt(query, m))

(***************************************************************************)
(* QueryRouter (src/tools.py)                                              *)
(***************************************************************************)
MathKeywords == {"calculate", "compute", "math", "arithmetic", "+", "-", "*", "/", "%"}
WebKeywords == {"latest", "recent", "news", "current", "today", "yesterday", "breaking"}
RagKeywords == {"policy", "regulation", "guideline", "law", "compliance", "standard"}

\* QueryRouter.__init__
RouterInit ==
    /\ math_keywords = MathKeywords
    /\ web_keywords = WebKeywords
    /\ rag_keywords = RagKeywords

\* the first rule of route(): a math keyword and the numeric-operator pattern
MathRule(query_lower, query) ==
    AnyKeyword(query_lower, math_keywords) /\ MathPattern(query)
\* the second rule of route(): a recency keyword
WebRule(query_lower) == AnyKeyword(query_lower, web_keywords)
\* the third rule of route(): a domain keyword
RagRule(query_lower) == AnyKeyword(query_lower, rag_keywords)

\* route() with the recency rule tried before the math rule
route_WebFirst(query) ==
    LET query_lower == Lower(query)
    IN  IF WebRule(query_lower) THEN "web_search"
        ELSE IF MathRule(query_lower, query) THEN "math"
        ELSE "rag"

\* route() with the domain rule tried before the recency rule
route_RagFirst(query) ==
    LET query_lower == Lower(query)
    IN  IF MathRule(query_lower, query) THEN "math"
        ELSE IF RagRule(query_lower) THEN "rag"
        ELSE IF WebRule(query_lower) THEN "web_search"
        ELSE "rag"

\* route() with a default category of its own for the queries no rule matches
route_NoDefault(query) ==
    LET query_lower == Lower(query)
    IN  IF MathRule(query_lower, query) THEN "math"
        ELSE IF WebRule(query_lower) THEN "web_search"
        ELSE IF RagRule(query_lower) THEN "rag"
        ELSE "default"

\* QueryRouter.route
route(query) ==
    LET query_lower == Lower(query)
    IN  IF MathRule(query_lower, query) THEN "math"
        ELSE IF WebRule(query_lower) THEN "web_search"
        ELSE IF RagRule(query_lower) THEN "rag"
        ELSE "rag"

\* the explanations table of get_routing_explanation
explanations ==
    [ math |-> "Routing to calculator for mathematical computation",
      web_search |-> "Routing to web search for current information",
      rag |-> "Routing to knowledge base for domain-specific information" ]

\* QueryRouter.get_routing_explanation
get_routing_explanation(query) ==
    LET r == route(query)
    IN  IF r \in DOMAIN explanations THEN explanations[r]
        ELSE "Using default routing to knowledge base"

(***************************************************************************)
(* Router harness: route() and get_routing_explanation() called directly   *)
(***************************************************************************)
RouterFragments ==
    { "Calculate ", "15% of 250", "2", " ", "2+", "2 -", "* 2", "/2", "%",
      "Latest ", "guideline" }

RECURSIVE FragTexts(_)
\* the texts made of at most n router fragments
FragTexts(n) ==
    IF n = 0 THEN {""}
    ELSE LET shorter == FragTexts(n - 1)
         IN  shorter \cup { t \o f : t \in shorter, f \in RouterFragments }

RouterQueries == FragTexts(MaxFrags)

\* the queries of the calls made in between two calls on rq
OtherQueries == { "Latest news", "10 % 3", "What is GDPR?" }

NoCall == [op |-> "none", q |-> "", out |-> ""]

NoOutcome == [text |-> "", evald |-> <<>>, exc |-> "none", raised |-> "none",
              modelled |-> FALSE]

\* the harnesses at rest
RouterIdle == rq = "" /\ rfirst = "none" /\ rlast = NoCall /\ rbetween = FALSE
CalcIdle == cexpr = "" /\ cout = NoOutcome
ChatIdle ==
    /\ tavily_client = FALSE /\ serp_api = FALSE /\ rag_tool = FALSE
    /\ memories = <<>> /\ db_sessions = {} /\ db_logs = <<>>
    /\ issued = {} /\ nchats = 0 /\ last = [op |-> "none"]

\* the state of a harness that is not running
ClockIdle == now = 0
ConcIdle == heap = <<>> /\ refs = <<>> /\ threads = <<>>
NoMetrics == [total_requests |-> 0, error_count |-> 0, request_times |-> 0,
              tool_response_times |-> 0]
MetricsIdle == metrics = NoMetrics /\ recorders = <<>>
NoScores == [faithfulness |-> <<>>, relevance |-> <<>>, tool_routing |-> <<>>]
NoReport == [returned |-> FALSE]
EvalIdle ==
    /\ eval_dataset = <<>> /\ eval_pos = -1 /\ eval_session = ""
    /\ eval_results = <<>> /\ eval_scores = NoScores /\ eval_saved = <<>>
    /\ eval_report = NoReport

InitRouter ==
    /\ RouterInit
    /\ rq \in RouterQueries
    /\ rfirst = "none"
    /\ rlast = NoCall
    /\ rbetween = FALSE
    /\ CalcIdle
    /\ ChatIdle
    /\ ClockIdle /\ ConcIdle /\ MetricsIdle /\ EvalIdle

\* router.route(rq), were route() to drop the recency keywords it has matched
RouteCall_Consuming ==
    LET out == route(rq)
    IN  /\ rlast' = [op |-> "route", q |-> rq, out |-> out]
        /\ rfirst' = IF rfirst = "none" THEN out ELSE rfirst
        /\ web_keywords' = { k \in web_keywords : ~Contains(Lower(rq), k) }
        /\ UNCHANGED <<extState, math_keywords, rag_keywords, rq, rbetween, calcHarness, chatState>>

\* router.route(rq)
RouteCall ==
    LET out == route(rq)
    IN  /\ rlast' = [op |-> "route", q |-> rq, out |-> out]
        /\ rfirst' = IF rfirst = "none" THEN out ELSE rfirst
        /\ UNCHANGED <<extState, routerState, rq, rbetween, calcHarness, chatState>>

\* router.route(q) for another query, between two calls on rq
RouteOtherCall ==
    \E q \in OtherQueries :
        /\ rlast' = [op |-> "route", q |-> q, out |-> route(q)]
        /\ rbetween' = (rfirst # "none")
        /\ UNCHANGED <<extState, routerState, rq, rfirst, calcHarness, chatState>>

\* router.get_routing_explanation(rq)
ExplainCall ==
    /\ rlast' = [op |-> "explain", q |-> rq, out |-> get_routing_explanation(rq)]
    /\ rbetween' = (rfirst # "none")
    /\ UNCHANGED <<extState, routerState, rq, rfirst, calcHarness, chatState>>

NextRouter == RouteCall \/ RouteOtherCall \/ ExplainCall

SpecRouter == InitRouter /\ [][NextRouter]_vars

(***************************************************************************)
(* MathTool (src/tools.py): what eval() does on the texts that pass the    *)
(* allow-list.  An expression is tokenized, parsed to a tree (a syntax     *)
(* error is found before anything is evaluated) and then evaluated.        *)
(***************************************************************************)
DigitChars == "0123456789"
DigitVal(c) == (CHOOSE k \in 1..10 : CharAt(DigitChars, k) = c) - 1
DigitChar(k) == CharAt(DigitChars, k + 1)

RECURSIVE SkipDigits(_, _)
\* the first position >= i of s that holds no digit
SkipDigits(s, i) ==
    IF i <= Len(s) /\ IsDigit(CharAt(s, i)) THEN SkipDigits(s, i + 1) ELSE i

\* the position after the number literal that starts at i: digits [. digits] or . digits
NumberEnd(s, i) ==
    LET j == SkipDigits(s, i)
    IN  IF j <= Len(s) /\ CharAt(s, j) = "." THEN SkipDigits(s, j + 1) ELSE j

\* a number literal starts at i: a digit, or a point followed by a digit
NumberStarts(s, i) ==
    \/ IsDigit(CharAt(s, i))
    \/ CharAt(s, i) = "." /\ i < Len(s) /\ IsDigit(CharAt(s, i + 1))

\* the operator or delimiter that starts at i (the longest one)
OperatorAt(s, i) ==
    LET two == SubSeq(s, i, i + 1)
    IN  IF i + 2 <= Len(s) /\ SubSeq(s, i, i + 2) = "..." THEN "..."
        ELSE IF i + 1 <= Len(s) /\ two \in {"**", "//"} THEN two
        ELSE CharAt(s, i)

RECURSIVE Tokenize(_, _)
\* the tokens of s from position i on
Tokenize(s, i) ==
    IF i > Len(s) THEN <<>>
    ELSE IF CharAt(s, i) = " " THEN Tokenize(s, i + 1)
    ELSE IF NumberStarts(s, i)
         THEN LET j == NumberEnd(s, i)
              IN  <<[t |-> "num", s |-> SubSeq(s, i, j - 1)]>> \o Tokenize(s, j)
    ELSE LET o == OperatorAt(s, i)
         IN  <<[t |-> "op", s |-> o]>> \o Tokenize(s, i + Len(o))

\* a decimal integer literal with a leading zero that is not all zeros
BadIntLiteral(lit) ==
    /\ ~Contains(lit, ".")
    /\ Len(lit) > 1 /\ CharAt(lit, 1) = "0"
    /\ \E i \in 1..Len(lit) : CharAt(lit, i) # "0"

NoParse == [ok |-> FALSE]
Parsed(tree, p) == [ok |-> TRUE, tree |-> tree, p |-> p]
IsOp(ts, p, ops) == p <= Len(ts) /\ ts[p].t = "op" /\ ts[p].s \in ops

NoTree == [n |-> "none"]

RECURSIVE ParseRule(_, _, _, _)
\* the grammar of arithmetic expressions, one rule per branch; left is the
\* operand already read by a rule that continues one
\*   expr:     term (('+' | '-') term)*
\*   term:     factor (('*' | '/' | '//') factor)*
\*   factor:   ('+' | '-') factor | power
\*   power:    primary ['**' factor]
\*   primary:  atom trailer*          trailer: '(' [expr] ')'
\*   atom:     NUMBER | '(' expr ')' | '(' ')' | '...'
ParseRule(rule, ts, left, p) ==
    IF rule = "atom"
    THEN IF p > Len(ts) THEN NoParse
         ELSE IF ts[p].t = "num"
              THEN IF BadIntLiteral(ts[p].s) THEN NoParse
                   ELSE Parsed([n |-> "num", s |-> ts[p].s], p + 1)
         ELSE IF ts[p].s = "..." THEN Parsed([n |-> "ellipsis"], p + 1)
         ELSE IF ts[p].s = "("
              THEN IF IsOp(ts, p + 1, {")"}) THEN Parsed([n |-> "tuple"], p + 2)
                   ELSE LET e == ParseRule("expr", ts, NoTree, p + 1)
                        IN  IF e.ok /\ IsOp(ts, e.p, {")"}) THEN Parsed(e.tree, e.p + 1)
                            ELSE NoParse
         ELSE NoParse
    ELSE IF rule = "trailers"
    THEN IF ~IsOp(ts, p, {"("}) THEN Parsed(left, p)
         ELSE IF IsOp(ts, p + 1, {")"})
              THEN ParseRule("trailers", ts, [n |-> "call", f |-> left, a |-> <<>>], p + 2)
         ELSE LET e == ParseRule("expr", ts, NoTree, p + 1)
              IN  IF e.ok /\ IsOp(ts, e.p, {")"})
                  THEN ParseRule("trailers", ts,
                                 [n |-> "call", f |-> left, a |-> <<e.tree>>], e.p + 1)
                  ELSE NoParse
    ELSE IF rule = "primary"
    THEN LET a == ParseRule("atom", ts, NoTree, p)
         IN  IF a.ok THEN ParseRule("trailers", ts, a.tree, a.p) ELSE NoParse
    ELSE IF rule = "power"
    THEN LET b == ParseRule("primary", ts, NoTree, p)
         IN  IF ~b.ok THEN NoParse
             ELSE IF IsOp(ts, b.p, {"**"})
                  THEN LET e == ParseRule("factor", ts, NoTree, b.p + 1)
                       IN  IF e.ok
                           THEN Parsed([n |-> "bin", op |-> "**", l |-> b.tree, r |-> e.tree],
                                       e.p)
                           ELSE NoParse
             ELSE b
    ELSE IF rule = "factor"
    THEN IF IsOp(ts, p, {"+", "-"})
         THEN LET e == ParseRule("factor", ts, NoTree, p + 1)
              IN  IF e.ok THEN Parsed([n |-> "un", op |-> ts[p].s, e |-> e.tree], e.p)
                  ELSE NoParse
         ELSE ParseRule("power", ts, NoTree, p)
    ELSE IF rule = "term_rest"
    THEN IF ~IsOp(ts, p, {"*", "/", "//"}) THEN Parsed(left, p)
         ELSE LET r == ParseRule("factor", ts, NoTree, p + 1)
              IN  IF r.ok
                  THEN ParseRule("term_rest", ts,
                                 [n |-> "bin", op |-> ts[p].s, l |-> left, r |-> r.tree], r.p)
                  ELSE NoParse
    ELSE IF rule = "term"
    THEN LET l == ParseRule("factor", ts, NoTree, p)
         IN  IF l.ok THEN ParseRule("term_rest", ts, l.tree, l.p) ELSE NoParse
    ELSE IF rule = "expr_rest"
    THEN IF ~IsOp(ts, p, {"+", "-"}) THEN Parsed(left, p)
         ELSE LET r == ParseRule("term", ts, NoTree, p + 1)
              IN  IF r.ok
                  THEN ParseRule("expr_rest", ts,
                                 [n |-> "bin", op |-> ts[p].s, l |-> left, r |-> r.tree], r.p)
                  ELSE NoParse
    ELSE LET l == ParseRule("term", ts, NoTree, p)
         IN  IF l.ok THEN ParseRule("expr_rest", ts, l.tree, l.p) ELSE NoParse

\* compile(text, mode='eval'): the tree, unless the text is no expression
Parse(text) ==
    LET ts == Tokenize(text, 1)
        e == ParseRule("expr", ts, NoTree, 1)
    IN  IF e.ok /\ e.p = Len(ts) + 1 THEN e ELSE NoParse

(***************************************************************************)
(* Values: Python ints and floats.  A float is kept as the exact reduced   *)
(* fraction n/d, which is what IEEE arithmetic gives as long as d is a     *)
(* small power of two; everything else (a float that must be rounded, a    *)
(* negative zero, an int beyond MaxAbs, a tuple, Ellipsis) is "unmodelled" *)
(* and is kept out of the inputs.                                          *)
(***************************************************************************)
Abs(x) == IF x < 0 THEN -x ELSE x

RECURSIVE GCD(_, _)
GCD(a, b) == IF b = 0 THEN a ELSE GCD(b, a % b)

IsPowerOfTwo(d) == d \in {1, 2, 4, 8, 16, 32, 64}

Value(t, n, d) == [k |-> "value", v |-> [t |-> t, n |-> n, d |-> d]]
Raise(cls, msg) == [k |-> "exc", cls |-> cls, msg |-> msg]
Unmodelled == [k |-> "unmodelled"]

\* the value n/d of type t (d > 0), reduced, if the model holds it
Norm(t, n, d) ==
    LET g == GCD(Abs(n), d)
        rn == n \div g
        rd == d \div g
    IN  IF Abs(rn) > MaxAbs THEN Unmodelled
        ELSE IF t = "int" THEN Value("int", rn, 1)
        ELSE IF IsPowerOfTwo(rd) /\ rd <= MaxDen THEN Value("float", rn, rd)
        ELSE Unmodelled

RECURSIVE ParseNat(_, _)
\* int() of a digit string
ParseNat(s, acc) ==
    IF s = "" THEN acc ELSE ParseNat(Tail(s), acc * 10 + DigitVal(CharAt(s, 1)))

RECURSIVE PowerOfTen(_)
PowerOfTen(n) == IF n = 0 THEN 1 ELSE 10 * PowerOfTen(n - 1)

\* the position of the point in a number literal
PointAt(lit) == CHOOSE i \in 1..Len(lit) : CharAt(lit, i) = "."

\* the value of a number literal
NumberValue(lit) ==
    IF Len(lit) > MaxDigits THEN Unmodelled
    ELSE IF Contains(lit, ".")
         THEN LET ip == SubSeq(lit, 1, PointAt(lit) - 1)
                  fp == SubSeq(lit, PointAt(lit) + 1, Len(lit))
              IN  Norm("float", ParseNat(ip \o fp, 0), PowerOfTen(Len(fp)))
    ELSE Norm("int", ParseNat(lit, 0), 1)

RECURSIVE PowAcc(_, _, _)
\* acc * b^e, given up once it is beyond MaxAbs
PowAcc(b, e, acc) ==
    IF e = 0 \/ Abs(acc) > MaxAbs THEN acc ELSE PowAcc(b, e - 1, acc * b)

\* b^e for e >= 0, or a number beyond MaxAbs when the result is beyond MaxAbs
PowCap(b, e) ==
    IF e = 0 THEN 1
    ELSE IF b = 0 THEN 0
    ELSE IF b = 1 THEN 1
    ELSE IF b = -1 THEN (IF e % 2 = 0 THEN 1 ELSE -1)
    ELSE PowAcc(b, e, 1)

\* a float result of zero whose sign would be negative
NegativeZero(t, n, a, b) == t = "float" /\ n = 0 /\ (a.n < 0 \/ b.n < 0)

\* the type of the result of + - * // on a and b
Wider(a, b) == IF a.t = "float" \/ b.t = "float" THEN "float" ELSE "int"

\* a ** b
PowValue(a, b) ==
    IF b.d # 1 THEN Unmodelled
    ELSE IF b.n >= 0
         THEN LET n == PowCap(a.n, b.n)
                  d == PowCap(a.d, b.n)
              IN  IF Abs(n) > MaxAbs \/ d > MaxAbs THEN Unmodelled
                  ELSE Norm(Wider(a, b), n, d)
    ELSE IF a.n = 0
         THEN Raise("ZeroDivisionError", "0.0 cannot be raised to a negative power")
    ELSE LET n == PowCap(a.d, -b.n)
             d == PowCap(a.n, -b.n)
         IN  IF Abs(n) > MaxAbs \/ Abs(d) > MaxAbs THEN Unmodelled
             ELSE Norm("float", IF d < 0 THEN -n ELSE n, Abs(d))

\* a op b for two values
BinaryValue(op, a, b) ==
    IF op = "+" THEN Norm(Wider(a, b), a.n * b.d + b.n * a.d, a.d * b.d)
    ELSE IF op = "-" THEN Norm(Wider(a, b), a.n * b.d - b.n * a.d, a.d * b.d)
    ELSE IF op = "*"
         THEN IF NegativeZero(Wider(a, b), a.n * b.n, a, b) THEN Unmodelled
              ELSE Norm(Wider(a, b), a.n * b.n, a.d * b.d)
    ELSE IF op = "/"
         THEN IF b.n = 0 THEN Raise("ZeroDivisionError", "division by zero")
              ELSE IF NegativeZero("float", a.n, a, b) THEN Unmodelled
              ELSE Norm("float", (IF b.n < 0 THEN -1 ELSE 1) * a.n * b.d, a.d * Abs(b.n))
    ELSE IF op = "//"
         THEN IF b.n = 0
              THEN Raise("ZeroDivisionError", "integer division or modulo by zero")
              ELSE IF NegativeZero(Wider(a, b), a.n, a, b) THEN Unmodelled
              ELSE Norm(Wider(a, b),
                        ((IF b.n < 0 THEN -1 ELSE 1) * a.n * b.d) \div (a.d * Abs(b.n)), 1)
    ELSE PowValue(a, b)

\* the name of the type of a value, as in a TypeError message
TypeName(v) == v.t

RECURSIVE Evaluate(_)
\* the evaluation of a tree: operands left to right, the first exception wins
Evaluate(tree) ==
    IF tree.n = "num" THEN NumberValue(tree.s)
    ELSE IF tree.n \in {"tuple", "ellipsis"} THEN Unmodelled
    ELSE IF tree.n = "un"
         THEN LET e == Evaluate(tree.e)
              IN  IF e.k # "value" THEN e
                  ELSE IF tree.op = "+" THEN e
                  ELSE IF e.v.t = "float" /\ e.v.n = 0 THEN Unmodelled
                  ELSE Value(e.v.t, -e.v.n, e.v.d)
    ELSE IF tree.n = "call"
         THEN LET f == Evaluate(tree.f)
              IN  IF f.k # "value" THEN f
                  ELSE LET a == IF tree.a = <<>> THEN f ELSE Evaluate(tree.a[1])
                       IN  IF a.k # "value" THEN a
                           ELSE Raise("TypeError",
                                      "'" \o TypeName(f.v) \o "' object is not callable")
    ELSE LET l == Evaluate(tree.l)
         IN  IF l.k # "value" THEN l
             ELSE LET r == Evaluate(tree.r)
                  IN  IF r.k # "value" THEN r
                      ELSE BinaryValue(tree.op, l.v, r.v)

\* the characters a text must be made of for the model to say what eval() does
\* with it; eval() of any other text runs arbitrary Python code
ArithmeticChars == {"0", "1", "2", "3", "4", "5", "6", "7", "8", "9",
                    "+", "-", "*", "/", ".", "(", ")", " "}

\* eval(text)
Eval(text) ==
    IF \E i \in 1..Len(text) : CharAt(text, i) \notin ArithmeticChars THEN Unmodelled
    ELSE LET e == Parse(text)
         IN  IF e.ok THEN Evaluate(e.tree)
             ELSE IF Tokenize(text, 1) = <<>>
                  THEN Raise("SyntaxError", "invalid syntax (<string>, line 0)")
             ELSE Raise("SyntaxError", "invalid syntax (<string>, line 1)")

RECURSIVE StrNat(_)
\* str() of a natural number
StrNat(n) == IF n < 10 THEN DigitChar(n) ELSE StrNat(n \div 10) \o DigitChar(n % 10)

RECURSIVE FracDigits(_, _)
\* the decimal digits of rem/d, 0 <= rem < d, d a power of two
FracDigits(rem, d) ==
    IF rem = 0 THEN ""
    ELSE DigitChar((rem * 10) \div d) \o FracDigits((rem * 10) % d, d)

\* str() of a value, as the f-string formats it
Str(v) ==
    LET sign == IF v.n < 0 THEN "-" ELSE ""
        ip == Abs(v.n) \div v.d
        rem == Abs(v.n) % v.d
    IN  IF v.t = "int" THEN sign \o StrNat(Abs(v.n))
        ELSE sign \o StrNat(ip) \o "." \o (IF rem = 0 THEN "0" ELSE FracDigits(rem, v.d))

\* the exception classes that derive from Exception
ExceptionClasses == {"SyntaxError", "TypeError", "ZeroDivisionError", "ValueError",
                     "OverflowError", "MemoryError", "RecursionError"}

RECURSIVE LStrip(_)
LStrip(s) == IF s # "" /\ IsSpace(CharAt(s, 1)) THEN LStrip(Tail(s)) ELSE s
RECURSIVE RStrip(_)
RStrip(s) ==
    IF s # "" /\ IsSpace(CharAt(s, Len(s))) THEN RStrip(SubSeq(s, 1, Len(s) - 1)) ELSE s
\* str.strip()
Strip(s) == RStrip(LStrip(s))

\* allowed_chars
allowed_chars == {"0", "1", "2", "3", "4", "5", "6", "7", "8", "9",
                  "+", "-", "*", "/", ".", "(", ")", " "}

\* all(...) of the allow-list test written as any(...)
AllAllowed_Any(expression) ==
    \E i \in 1..Len(expression) : CharAt(expression, i) \in allowed_chars

\* all(c in allowed_chars for c in expression)
AllAllowed(expression) ==
    \A i \in 1..Len(expression) : CharAt(expression, i) \in allowed_chars

RejectText == "Error: Only basic mathematical operations are allowed (+, -, *, /, parentheses)"
DivisionByZeroText == "Error: Division by zero"

\* what a call of calculate() comes to: the text returned, the texts handed to
\* eval(), the exception eval() raised, the exception that left calculate()
Outcome(text, evald, exc, raised, modelled) ==
    [text |-> text, evald |-> evald, exc |-> exc, raised |-> raised, modelled |-> modelled]

\* the except clauses of calculate() without the one for ZeroDivisionError
CalcHandlers_NoZeroClause(stripped, r) ==
    IF r.cls \in ExceptionClasses
    THEN Outcome("Error: " \o r.msg, <<stripped>>, r.cls, "none", TRUE)
    ELSE Outcome("", <<stripped>>, r.cls, r.cls, TRUE)

\* the except clauses of calculate()
CalcHandlers(stripped, r) ==
    IF r.cls = "ZeroDivisionError"
    THEN Outcome(DivisionByZeroText, <<stripped>>, r.cls, "none", TRUE)
    ELSE IF r.cls \in ExceptionClasses
    THEN Outcome("Error: " \o r.msg, <<stripped>>, r.cls, "none", TRUE)
    ELSE Outcome("", <<stripped>>, r.cls, r.cls, TRUE)

\* the body of calculate() from eval() on
CalcEvaluate(stripped) ==
    LET r == Eval(stripped)
    IN  IF r.k = "unmodelled" THEN Outcome("", <<stripped>>, "none", "none", FALSE)
        ELSE IF r.k = "value"
        THEN Outcome("Result: " \o Str(r.v), <<stripped>>, "none", "none", TRUE)
        ELSE CalcHandlers(stripped, r)

\* MathTool.calculate
calculate(expression) ==
    LET stripped == Strip(expression)
    IN  IF ~AllAllowed(stripped) THEN Outcome(RejectText, <<>>, "none", "none", TRUE)
        ELSE CalcEvaluate(stripped)

(***************************************************************************)
(* Calculator harness: calculate() called directly                         *)
(***************************************************************************)
CalcFragments ==
    { "2", "10", "0", " ", " + ", "-", "*", "/", "(", ")", ".5", "%", "\n", "os" }

RECURSIVE CalcTexts(_)
\* the texts made of at most n calculator fragments
CalcTexts(n) ==
    IF n = 0 THEN {""}
    ELSE LET shorter == CalcTexts(n - 1)
         IN  shorter \cup { t \o f : t \in shorter, f \in CalcFragments }

\* the expressions of TestMathTool
TestExpressions ==
    { "2 + 2", "10 - 5", "3 * 4", "15 / 3", "2 ** 3", "10 % 3",
      "(2 + 3) * 4", "2 * (5 + 3)", "(10 - 2) / 4", "2 + 3 * 4 - 1",
      "10 / 0", "2 + abc", "2 +", "import os", "__import__('os')",
      "eval('print(1)')", "exec('print(1)')" }

\* the model says what calculate() does with the text: eval() is not reached, or
\* the value it computes is one the model holds
CalcModelled(e) ==
    LET stripped == Strip(e)
    IN  \/ \E i \in 1..Len(stripped) : CharAt(stripped, i) \notin ArithmeticChars
        \/ Eval(stripped).k # "unmodelled"

CalcInputs == { e \in CalcTexts(MaxCalcFrags) \cup TestExpressions : CalcModelled(e) }

InitCalc ==
    /\ RouterInit
    /\ RouterIdle
    /\ cexpr \in CalcInputs
    /\ cout = NoOutcome
    /\ ChatIdle
    /\ ClockIdle /\ ConcIdle /\ MetricsIdle /\ EvalIdle

\* math_tool.calculate(cexpr)
CalculateCall ==
    /\ cout = NoOutcome
    /\ cout' = calculate(cexpr)
    /\ UNCHANGED <<extState, routerState, routerHarness, cexpr, chatState>>

NextCalc == CalculateCall

SpecCalc == InitCalc /\ [][NextCalc]_vars

(***************************************************************************)
(* WebSearchTool and RAGTool (src/tools.py)                                *)
(***************************************************************************)
WebUnavailableText ==
    "Web search is not available. Please configure SERPAPI_API_KEY or TAVILY_API_KEY."

\* what the provider that is consulted does: it answers or it raises
ProviderOutcomes ==
    { [ok |-> TRUE, text |-> "Title: AI\nURL: u\nContent: c\n"],
      [ok |-> FALSE, text |-> "timeout"] }

\* WebSearchTool._search_tavily / _search_serpapi
SearchWith(prov) == IF prov.ok THEN prov.text ELSE "Search failed: " \o prov.text

\* search() with the two providers tried in the other order
search_SerpFirst(prov) ==
    IF serp_api THEN [text |-> SearchWith(prov), consulted |-> <<"serpapi">>]
    ELSE IF tavily_client THEN [text |-> SearchWith(prov), consulted |-> <<"tavily">>]
    ELSE [text |-> WebUnavailableText, consulted |-> <<>>]

\* WebSearchTool.search: the text returned and the providers consulted
search(prov) ==
    IF tavily_client THEN [text |-> SearchWith(prov), consulted |-> <<"tavily">>]
    ELSE IF serp_api THEN [text |-> SearchWith(prov), consulted |-> <<"serpapi">>]
    ELSE [text |-> WebUnavailableText, consulted |-> <<>>]

\* a document of the vector store: its text and its metadata (the numbers of
\* the metadata are written as their digits)
Doc(page_content, metadata) == [page_content |-> page_content, metadata |-> metadata]

\* what the retriever does: the chunks it ranks, or it raises
Retrievals ==
    { [ok |-> TRUE, docs |-> <<>>, text |-> ""],
      [ok |-> TRUE, text |-> "",
       docs |-> << Doc("GDPR text", [source_file |-> "gdpr.pdf", page |-> "3", chunk_id |-> "7"]),
                   Doc("AI Act text", [source_file |-> "ai_act.pdf"]) >>],
      [ok |-> FALSE, docs |-> <<>>, text |-> "index not loaded"] }

\* dict.get(key, default)
Get(dict, key, default) == IF key \in DOMAIN dict THEN dict[key] ELSE default

\* the source_info of the i-th document (enumerate counts from 0)
SourceInfo(docs, i) ==
    [file |-> Get(docs[i].metadata, "source_file", "Unknown"),
     page |-> Get(docs[i].metadata, "page", "Unknown"),
     chunk_id |-> Get(docs[i].metadata, "chunk_id", StrNat(i - 1))]

RECURSIVE JoinContext(_, _)
\* '\n\n'.join(context_parts) for the documents from the i-th on
JoinContext(docs, i) ==
    IF i > Len(docs) THEN ""
    ELSE "[Document " \o StrNat(i) \o "]: " \o docs[i].page_content
            \o (IF i < Len(docs) THEN "\n\n" ELSE "") \o JoinContext(docs, i + 1)

\* RAGTool.query: the context and one source record per document
query(ret) ==
    IF ret.ok
    THEN [context |-> JoinContext(ret.docs, 1),
          sources |-> [i \in 1..Len(ret.docs) |-> SourceInfo(ret.docs, i)],
          num_sources |-> Len(ret.docs)]
    ELSE [context |-> "Error retrieving documents: " \o ret.text,
          sources |-> <<>>, num_sources |-> 0]

\* what the language model does with a prompt: it answers or it raises
LLMOutcomes ==
    { [ok |-> TRUE, text |-> "Generated answer"],
      [ok |-> FALSE, text |-> "rate limit"] }

(***************************************************************************)
(* ContextAwareChatbot (src/chatbot.py)                                    *)
(***************************************************************************)
SessionOrder == <<"s1", "s2">>
SessionIds == { SessionOrder[i] : i \in 1..Len(SessionOrder) }
Users == {"u1", "anonymous"}

\* the messages sent to chat()
ChatMessages ==
    { "Calculate 15% of 250000", "What are the latest AI safety guidelines?",
      "Calculate 2 + 2", "What is 5 + 3?" }

Turn(role, content) == [role |-> role, content |-> content]

\* no search was made
NoSearch == [text |-> "", consulted |-> <<>>]

\* what a handler comes to: the response and the sources it returns, whether it
\* added the exchange to the memory, the exception that left it, whether it ran
\* the language model, the search it made, the documents it retrieved, and the
\* collaborators that raised
Handled(response, sources, remembered) ==
    [response |-> response, sources |-> sources, remembered |-> remembered,
     raised |-> "none", llm_called |-> FALSE, search |-> NoSearch,
     retrieved |-> <<>>, faults |-> {}]

\* the handler ran the language model
WithLLM(h) == [h EXCEPT !.llm_called = TRUE]

\* the handler made the search
WithSearch(h, search_results) == [h EXCEPT !.search = search_results]

\* the handler retrieved the documents
WithRetrieved(h, docs) == [h EXCEPT !.retrieved = docs]

\* a collaborator of the handler raised
Fault(by, text) == [by |-> by, text |-> text]
WithFaults(h, faults) == [h EXCEPT !.faults = @ \cup faults]

\* the exception a collaborator raised, if it was called and did so
FaultOf(by, outcome, called) ==
    IF called /\ ~outcome.ok THEN {Fault(by, outcome.text)} ELSE {}

\* an exception left the handler
Propagated(h, cls) == [h EXCEPT !.raised = cls]

RagUnavailableText == "Knowledge base is not available. Please try a web search instead."

\* _handle_rag_query without the test of rag_tool: the call on the absent tool
\* raises and the except clause answers
handle_rag_query_NoGuard(q, ret, llm) ==
    IF ~rag_tool
    THEN Handled("Error processing knowledge base query: "
                    \o "'NoneType' object has no attribute 'query'", <<>>, FALSE)
    ELSE LET rag_result == query(ret)
             h == IF llm.ok THEN Handled(llm.text, rag_result.sources, TRUE)
                  ELSE Handled("Error processing knowledge base query: " \o llm.text,
                               <<>>, FALSE)
         IN  WithFaults(WithRetrieved(WithLLM(h), ret.docs),
                        FaultOf("retriever", ret, TRUE) \cup FaultOf("llm", llm, TRUE))

\* ContextAwareChatbot._handle_rag_query
handle_rag_query(q, ret, llm) ==
    IF ~rag_tool THEN Handled(RagUnavailableText, <<>>, FALSE)
    ELSE LET rag_result == query(ret)
             h == IF llm.ok THEN Handled(llm.text, rag_result.sources, TRUE)
                  ELSE Handled("Error processing knowledge base query: " \o llm.text,
                               <<>>, FALSE)
         IN  WithFaults(WithRetrieved(WithLLM(h), ret.docs),
                        FaultOf("retriever", ret, TRUE) \cup FaultOf("llm", llm, TRUE))

\* _handle_web_search_query without its except clause
handle_web_search_query_NoExcept(q, prov, llm) ==
    LET search_results == search(prov)
        h == IF llm.ok
             THEN Handled(llm.text, <<[source |-> "web_search", query |-> q]>>, TRUE)
             ELSE Propagated(Handled("", <<>>, FALSE), "Exception")
    IN  WithFaults(WithSearch(WithLLM(h), search_results),
                   FaultOf("provider", prov, search_results.consulted # <<>>)
                      \cup FaultOf("llm", llm, TRUE))

\* ContextAwareChatbot._handle_web_search_query
handle_web_search_query(q, prov, llm) ==
    LET search_results == search(prov)
        h == IF llm.ok
             THEN Handled(llm.text, <<[source |-> "web_search", query |-> q]>>, TRUE)
             ELSE Handled("Error performing web search: " \o llm.text, <<>>, FALSE)
    IN  WithFaults(WithSearch(WithLLM(h), search_results),
                   FaultOf("provider", prov, search_results.consulted # <<>>)
                      \cup FaultOf("llm", llm, TRUE))

\* a character of the class [\d\+\-\*/\(\)\.\s]
IsExprChar(c) == IsDigit(c) \/ IsSpace(c) \/ c \in {"+", "-", "*", "/", "(", ")", "."}

RECURSIVE SkipExprChars(_, _)
SkipExprChars(s, i) ==
    IF i <= Len(s) /\ IsExprChar(CharAt(s, i)) THEN SkipExprChars(s, i + 1) ELSE i

\* re.search(r'[\d\+\-\*/\(\)\.\s]+', query): the leftmost longest run, if any
ExprSearch(q) ==
    IF \E i \in 1..Len(q) : IsExprChar(CharAt(q, i))
    THEN LET i == CHOOSE i \in 1..Len(q) :
                    /\ IsExprChar(CharAt(q, i))
                    /\ \A j \in 1..(i - 1) : ~IsExprChar(CharAt(q, j))
         IN  [found |-> TRUE, group |-> SubSeq(q, i, SkipExprChars(q, i) - 1)]
    ELSE [found |-> FALSE, group |-> ""]

\* the expression _handle_math_query hands to the calculator
MathExpression(q) ==
    LET math_expr == ExprSearch(q)
    IN  IF math_expr.found THEN Strip(math_expr.group) ELSE q

\* ContextAwareChatbot._handle_math_query
handle_math_query(q) ==
    LET math_expr == ExprSearch(q)
        out == calculate(MathExpression(q))
        response == IF math_expr.found
                    THEN "Mathematical calculation for: " \o MathExpression(q)
                            \o "\n" \o out.text
                    ELSE out.text
    IN  IF out.raised # "none"
        THEN Handled("Error performing calculation: " \o out.raised, <<>>, FALSE)
        ELSE Handled(response, <<[source |-> "calculator", expression |-> q]>>, TRUE)

\* the branch of chat() that handles a category
Branch(category) == IF category \in {"rag", "web_search", "math"} THEN category ELSE "fallback"

\* the dispatch of chat(): what the handler of the category may come to, the
\* retriever, the provider and the language model doing what they do
Dispatch(category, message) ==
    IF category = "rag"
    THEN { handle_rag_query(message, ret, llm) : ret \in Retrievals, llm \in LLMOutcomes }
    ELSE IF category = "web_search"
    THEN { handle_web_search_query(message, prov, llm) :
              prov \in ProviderOutcomes, llm \in LLMOutcomes }
    ELSE IF category = "math" THEN { handle_math_query(message) }
    ELSE { handle_rag_query(message, ret, llm) : ret \in Retrievals, llm \in LLMOutcomes }

\* ContextAwareChatbot.get_memory: the memories once the one of sid exists
get_memory(sid) ==
    IF sid \in DOMAIN memories THEN memories ELSE memories @@ (sid :> <<>>)

\* add_user_message and add_ai_message on the memory of sid: chat_memory.messages
\* is a plain list, the window k of the memory is not applied to it
Remember(mems, sid, message, response) ==
    [mems EXCEPT ![sid] = @ \o <<Turn("user", message), Turn("assistant", response)>>]

\* a row of conversation_logs, stamped with datetime.utcnow()
LogEntry(sid, message, response, tool, sources) ==
    [session_id |-> sid, user_message |-> message, bot_response |-> response,
     tool_used |-> tool, sources |-> sources, timestamp |-> now]

\* a row of chat_sessions: created_at is given, last_activity is the column default
ChatSession(session_id, user_id) ==
    [session_id |-> session_id, user_id |-> user_id,
     created_at |-> now, last_activity |-> now]

NoLast == [op |-> "none"]

Init ==
    /\ RouterInit
    /\ RouterIdle
    /\ CalcIdle
    /\ tavily_client \in BOOLEAN
    /\ serp_api \in BOOLEAN
    /\ rag_tool \in BOOLEAN
    /\ memories = <<>>
    /\ db_sessions = {}
    /\ db_logs = <<>>
    /\ issued = {}
    /\ nchats = 0
    /\ last = NoLast
    /\ ClockIdle /\ ConcIdle /\ MetricsIdle /\ EvalIdle

environment == <<tavily_client, serp_api, rag_tool>>

\* uuid.uuid4(): an id that was not issued before (the ids are issued in a fixed
\* order, which loses nothing as they are opaque)
FreshIds ==
    IF issued = SessionIds THEN {}
    ELSE { CHOOSE id \in SessionIds \ issued : \A other \in SessionIds \ issued : 
              \/ other = id
              \/ \E i \in 1..Len(SessionOrder) :
                    /\ SessionOrder[i] = id
                    /\ \E j \in (i + 1)..Len(SessionOrder) : SessionOrder[j] = other }

\* what create_session(user_id) does when uuid4 gives session_id: the row is
\* there if the commit succeeds, and the id is returned in either case
create_session(user_id, session_id, committed) ==
    /\ issued' = issued \cup {session_id}
    /\ db_sessions' = IF committed
                      THEN db_sessions \cup {ChatSession(session_id, user_id)}
                      ELSE db_sessions
    /\ last' = [op |-> "create_session", user_id |-> user_id, session_id |-> session_id]

\* ContextAwareChatbot.create_session; the commit may fail
CreateSession ==
    \E user_id \in Users, session_id \in FreshIds, committed \in BOOLEAN :
        /\ create_session(user_id, session_id, committed)
        /\ UNCHANGED <<extState, routerState, routerHarness, calcHarness, environment,
                       memories, db_logs, nchats>>

\* chat() up to the handler's return: the category, the explanation and what
\* the handler came to, for every message and everything the retriever, the
\* provider and the language model may do
HandlingsOf(messages) ==
    UNION { LET category == route(message)
                explanation == get_routing_explanation(message)
            IN  { [message |-> message, category |-> category,
                   explanation |-> explanation, h |-> h] :
                  h \in Dispatch(category, message) } :
            message \in messages }

Handlings == HandlingsOf(ChatMessages)

\* ContextAwareChatbot.chat(message, sid) for one of the handlings and a session
\* id of sessions, at most limit times; the commit of the log entry may fail
\* what chat(message, sid) does when it is handled as c and the commit of the
\* log entry succeeds or fails
chat(c, sid, committed) ==
    LET mems == get_memory(sid)
        returned == c.h.raised = "none"
    IN  /\ nchats' = nchats + 1
        /\ memories' = IF c.h.remembered
                       THEN Remember(mems, sid, c.message, c.h.response)
                       ELSE mems
        /\ db_logs' = IF returned /\ committed
                      THEN Append(db_logs, LogEntry(sid, c.message, c.h.response,
                                                    c.category, c.h.sources))
                      ELSE db_logs
        /\ last' = [op |-> "chat", message |-> c.message, session_id |-> sid,
                    branch |-> Branch(c.category),
                    consulted |-> c.h.search.consulted,
                    search |-> c.h.search,
                    llm_called |-> c.h.llm_called,
                    retrieved |-> c.h.retrieved,
                    faults |-> c.h.faults,
                    remembered |-> c.h.remembered,
                    committed |-> committed,
                    raised |-> c.h.raised,
                    result |-> [response |-> c.h.response, sources |-> c.h.sources,
                                tool_used |-> c.category,
                                routing_explanation |-> c.explanation,
                                session_id |-> sid]]

ChatOf(handlings, sessions, limit) ==
    /\ nchats < limit
    /\ \E c \in handlings, sid \in sessions, committed \in BOOLEAN :
        /\ chat(c, sid, committed)
        /\ UNCHANGED <<extState, routerState, routerHarness, calcHarness, environment,
                       db_sessions, issued>>

\* ContextAwareChatbot.chat
Chat == ChatOf(Handlings, SessionIds, MaxChats)

\* ContextAwareChatbot.get_session_history
GetSessionHistory ==
    \E sid \in SessionIds :
        /\ memories' = get_memory(sid)
        /\ last' = [op |-> "get_session_history", session_id |-> sid,
                    history |-> get_memory(sid)[sid]]
        /\ UNCHANGED <<extState, routerState, routerHarness, calcHarness, environment,
                       db_sessions, db_logs, issued, nchats>>

\* the rows of conversation_logs that are not of sid
LogsNotOf(logs, sid) ==
    LET other(e) == e.session_id # sid
    IN  SelectSeq(logs, other)

\* clear_session that deletes the log entries of the session as well
ClearSession_WithLogs ==
    \E sid \in SessionIds :
        /\ memories' = [s \in DOMAIN memories \ {sid} |-> memories[s]]
        /\ db_logs' = LogsNotOf(db_logs, sid)
        /\ last' = [op |-> "clear_session", session_id |-> sid,
                    cleared |-> IF sid \in DOMAIN memories THEN Len(memories[sid]) ELSE -1]
        /\ UNCHANGED <<extState, routerState, routerHarness, calcHarness, environment,
                       db_sessions, issued, nchats>>

\* ContextAwareChatbot.clear_session
ClearSession ==
    \E sid \in SessionIds :
        /\ memories' = [s \in DOMAIN memories \ {sid} |-> memories[s]]
        /\ last' = [op |-> "clear_session", session_id |-> sid,
                    cleared |-> IF sid \in DOMAIN memories THEN Len(memories[sid]) ELSE -1]
        /\ UNCHANGED <<extState, routerState, routerHarness, calcHarness, environment,
                       db_sessions, db_logs, issued, nchats>>

\* delete_session that deletes the log entries of every session
DeleteSession_AllLogs ==
    \E sid \in SessionIds, committed \in BOOLEAN :
        LET session == { row \in db_sessions : row.session_id = sid }
        IN  /\ db_sessions' = IF session # {} /\ committed
                              THEN db_sessions \ session ELSE db_sessions
            /\ db_logs' = IF session # {} /\ committed THEN <<>> ELSE db_logs
            /\ last' = [op |-> "delete_session", session_id |-> sid,
                        result |-> session # {},
                        raised |-> IF session # {} /\ ~committed
                                   THEN "Exception" ELSE "none"]
            /\ UNCHANGED <<extState, routerState, routerHarness, calcHarness, environment,
                           memories, issued, nchats>>

\* DatabaseManager.delete_session: the logs go with the session row when there
\* is one and the commit succeeds; without a row nothing is committed, and a
\* failed commit is rolled back and raised
DeleteSession ==
    \E sid \in SessionIds, committed \in BOOLEAN :
        LET session == { row \in db_sessions : row.session_id = sid }
        IN  /\ db_sessions' = IF session # {} /\ committed
                              THEN db_sessions \ session ELSE db_sessions
            /\ db_logs' = IF session # {} /\ committed
                          THEN LogsNotOf(db_logs, sid) ELSE db_logs
            /\ last' = [op |-> "delete_session", session_id |-> sid,
                        result |-> session # {},
                        raised |-> IF session # {} /\ ~committed
                                   THEN "Exception" ELSE "none"]
            /\ UNCHANGED <<extState, routerState, routerHarness, calcHarness, environment,
                           memories, issued, nchats>>

Next == CreateSession \/ Chat \/ GetSessionHistory \/ ClearSession \/ DeleteSession

Spec == Init /\ [][Next]_vars

(***************************************************************************)
(* Memory-window harness: one session, chats that are always remembered    *)
(***************************************************************************)
\* config.memory_window
memory_window == 10

WindowMessages == {"Calculate 2 + 2"}
WindowSessions == {"s1"}

\* chat() of a window message on the window session
WindowChat == ChatOf(HandlingsOf(WindowMessages), WindowSessions, MaxWindowChats)

NextWindow == WindowChat \/ GetSessionHistory \/ ClearSession

SpecWindow == Init /\ [][NextWindow]_vars

(***************************************************************************)
(* Store harness: sessions, their logs and the retention sweep over time   *)
(***************************************************************************)
MaxStoreChats == 1
MaxTime == 2
RetentionDays == {1}

\* the rows of conversation_logs that are of sid
LogsOf(logs, sid) ==
    LET mine(e) == e.session_id = sid
    IN  SelectSeq(logs, mine)

\* tools_used of get_session_stats: how many of the logs each tool has
ToolsUsed(logs) ==
    [tool \in { logs[i].tool_used : i \in DOMAIN logs } |->
        Cardinality({ i \in DOMAIN logs : logs[i].tool_used = tool })]

\* the answer of DatabaseManager.get_session_stats without a session row
SessionNotFound == [error |-> "Session not found"]

\* ContextAwareChatbot.get_session_stats: counts the logs, never looks for the row
get_session_stats ==
    \E sid \in SessionIds :
        LET logs == LogsOf(db_logs, sid)
        IN  /\ last' = [op |-> "get_session_stats", session_id |-> sid,
                        result |-> [total_messages |-> Len(logs),
                                    tools_used |-> ToolsUsed(logs),
                                    session_id |-> sid]]
            /\ UNCHANGED <<extState, routerState, routerHarness, calcHarness, environment,
                           memories, db_sessions, db_logs, issued, nchats>>

\* DatabaseManager.get_session_stats
DatabaseManager_get_session_stats ==
    \E sid \in SessionIds :
        LET session == { row \in db_sessions : row.session_id = sid }
            logs == LogsOf(db_logs, sid)
            row == CHOOSE r \in session : TRUE
        IN  /\ last' = [op |-> "DatabaseManager.get_session_stats", session_id |-> sid,
                        result |-> IF session = {} THEN SessionNotFound
                                   ELSE [session_id |-> sid, user_id |-> row.user_id,
                                         created_at |-> row.created_at,
                                         last_activity |-> row.last_activity,
                                         total_messages |-> Len(logs),
                                         tools_used |-> ToolsUsed(logs)]]
            /\ UNCHANGED <<extState, routerState, routerHarness, calcHarness, environment,
                           memories, db_sessions, db_logs, issued, nchats>>

\* DatabaseManager.cleanup_old_sessions(days): the sessions whose last_activity
\* is before the cutoff go with their logs; a failed commit is rolled back and raised
cleanup_old_sessions(days) ==
    \E committed \in BOOLEAN :
        LET cutoff_date == now - days
            old_sessions == { row \in db_sessions : row.last_activity < cutoff_date }
            session_ids == { row.session_id : row \in old_sessions }
            kept(e) == e.session_id \notin session_ids
        IN  /\ db_sessions' = IF committed THEN db_sessions \ old_sessions ELSE db_sessions
            /\ db_logs' = IF committed THEN SelectSeq(db_logs, kept) ELSE db_logs
            /\ last' = [op |-> "cleanup_old_sessions", days |-> days,
                        result |-> IF committed THEN Cardinality(session_ids) ELSE -1,
                        raised |-> IF committed THEN "none" ELSE "Exception"]
            /\ UNCHANGED <<extState, routerState, routerHarness, calcHarness, environment,
                           memories, issued, nchats>>

CleanupOldSessions == \E days \in RetentionDays : cleanup_old_sessions(days)

\* a day passes
Tick ==
    /\ now < MaxTime
    /\ now' = now + 1
    /\ last' = [op |-> "tick"]
    /\ UNCHANGED <<concState, metricsState, evalState, routerState, routerHarness,
                   calcHarness, environment, memories, db_sessions, db_logs, issued, nchats>>

\* chat() of a window message on any session id
StoreChat == ChatOf(HandlingsOf(WindowMessages), SessionIds, MaxStoreChats)

NextStore ==
    \/ CreateSession \/ StoreChat \/ GetSessionHistory \/ ClearSession \/ DeleteSession
    \/ get_session_stats \/ DatabaseManager_get_session_stats \/ CleanupOldSessions \/ Tick

\* the store harness chats on calculations only, which use no provider, no
\* retriever and no language model: one environment stands for all
InitStore == Init /\ ~tavily_client /\ ~serp_api /\ ~rag_tool

SpecStore == InitStore /\ [][NextStore]_vars

(***************************************************************************)
(* Concurrency harness: chat() called by several threads on one chatbot,   *)
(* statement by statement; the memory objects have an identity             *)
(***************************************************************************)
MaxThreads == 2
ConcThreads == 1..MaxThreads

\* the message of each call: calculations, which have one handling each
ConcMessages == <<"Calculate 2 + 2", "Calculate 3 * 3", "What is 5 + 3?">>

\* a call that has not arrived; memory 0 is no object
IdleThread == [pc |-> "idle", session_id |-> "", memory |-> 0]

\* the harness starts with a chatbot without sessions and no call under way
InitConc ==
    /\ RouterInit /\ RouterIdle /\ CalcIdle /\ ChatIdle
    /\ ClockIdle /\ MetricsIdle /\ EvalIdle
    /\ heap = <<>>
    /\ refs = <<>>
    /\ threads = [t \in ConcThreads |-> IdleThread]

ConcFrame == <<now, metricsState, evalState, routerState, routerHarness, calcHarness,
               environment, memories, db_sessions, issued, nchats, last>>

\* chat(message, session_id) is called
Arrive(t) ==
    \E sid \in SessionIds :
        /\ threads[t].pc = "idle"
        /\ threads' = [threads EXCEPT ![t] = [@ EXCEPT !.pc = "check", !.session_id = sid]]
        /\ UNCHANGED <<ConcFrame, heap, refs, db_logs>>

\* get_memory: if session_id not in self.memories
MemoryCheck(t) ==
    /\ threads[t].pc = "check"
    /\ threads' = [threads EXCEPT ![t].pc =
                      IF threads[t].session_id \in DOMAIN refs THEN "fetch" ELSE "create"]
    /\ UNCHANGED <<ConcFrame, heap, refs, db_logs>>

\* get_memory: self.memories[session_id] = ConversationBufferWindowMemory(...)
MemoryCreate(t) ==
    /\ threads[t].pc = "create"
    /\ heap' = Append(heap, <<>>)
    /\ refs' = [s \in DOMAIN refs \cup {threads[t].session_id} |->
                   IF s = threads[t].session_id THEN Len(heap) + 1 ELSE refs[s]]
    /\ threads' = [threads EXCEPT ![t].pc = "fetch"]
    /\ UNCHANGED <<ConcFrame, db_logs>>

\* get_memory: return self.memories[session_id]
MemoryFetch(t) ==
    /\ threads[t].pc = "fetch"
    /\ threads' = [threads EXCEPT ![t] =
                      [@ EXCEPT !.pc = "user", !.memory = refs[threads[t].session_id]]]
    /\ UNCHANGED <<ConcFrame, heap, refs, db_logs>>

\* the handler: memory.chat_memory.add_user_message(query), unless it returns
\* without adding the exchange to the memory
AddUserMessage(t) ==
    /\ threads[t].pc = "user"
    /\ \E c \in HandlingsOf({ConcMessages[t]}) :
          IF c.h.remembered
          THEN /\ heap' = [heap EXCEPT ![threads[t].memory] =
                              Append(@, Turn("user", c.message))]
               /\ threads' = [threads EXCEPT ![t].pc = "ai"]
          ELSE /\ heap' = heap
               /\ threads' = [threads EXCEPT ![t].pc = "log"]
    /\ UNCHANGED <<ConcFrame, refs, db_logs>>

\* the handler: memory.chat_memory.add_ai_message(response)
AddAiMessage(t) ==
    /\ threads[t].pc = "ai"
    /\ \E c \in HandlingsOf({ConcMessages[t]}) :
          heap' = [heap EXCEPT ![threads[t].memory] =
                      Append(@, Turn("assistant", c.h.response))]
    /\ threads' = [threads EXCEPT ![t].pc = "log"]
    /\ UNCHANGED <<ConcFrame, refs, db_logs>>

\* _log_conversation and the return of chat(); the commit may fail
LogAndReturn(t) ==
    /\ threads[t].pc = "log"
    /\ \E c \in HandlingsOf({ConcMessages[t]}), committed \in BOOLEAN :
          db_logs' = IF committed
                     THEN Append(db_logs, LogEntry(threads[t].session_id, c.message,
                                                   c.h.response, c.category, c.h.sources))
                     ELSE db_logs
    /\ threads' = [threads EXCEPT ![t].pc = "done"]
    /\ UNCHANGED <<ConcFrame, heap, refs>>

NextConc ==
    \E t \in ConcThreads :
        \/ Arrive(t) \/ MemoryCheck(t) \/ MemoryCreate(t) \/ MemoryFetch(t)
        \/ AddUserMessage(t) \/ AddAiMessage(t) \/ LogAndReturn(t)

SpecConc == InitConc /\ [][NextConc]_vars

(***************************************************************************)
(* Metrics harness: record_request called by several threads on the one    *)
(* MetricsCollector, statement by statement                                *)
(***************************************************************************)
MaxRecorders == 2
Recorders == 1..MaxRecorders

\* tool_used of a request, "" for None
RecordedTools == {"", "math"}

\* a call that has not started; tmp is the value it has read of a counter
IdleRecorder == [pc |-> "idle", error |-> FALSE, tool_used |-> "", tmp |-> 0]

\* MetricsCollector.__init__: the counters and the recorded times, by their number
InitMetrics ==
    /\ RouterInit /\ RouterIdle /\ CalcIdle /\ ChatIdle
    /\ ClockIdle /\ ConcIdle /\ EvalIdle
    /\ metrics = NoMetrics
    /\ recorders = [t \in Recorders |-> IdleRecorder]

MetricsFrame == <<now, concState, evalState, routerState, routerHarness, calcHarness,
                  chatState>>

\* record_request(response_time, tool_used, error) is called
RecordRequest(t) ==
    \E error \in BOOLEAN, tool_used \in RecordedTools :
        /\ recorders[t].pc = "idle"
        /\ recorders' = [recorders EXCEPT ![t] =
                            [pc |-> "load_total", error |-> error,
                             tool_used |-> tool_used, tmp |-> 0]]
        /\ UNCHANGED <<MetricsFrame, metrics>>

\* self.total_requests += 1: the read
LoadTotal(t) ==
    /\ recorders[t].pc = "load_total"
    /\ recorders' = [recorders EXCEPT ![t] =
                        [@ EXCEPT !.pc = "store_total", !.tmp = metrics.total_requests]]
    /\ UNCHANGED <<MetricsFrame, metrics>>

\* self.total_requests += 1: the write
StoreTotal(t) ==
    /\ recorders[t].pc = "store_total"
    /\ metrics' = [metrics EXCEPT !.total_requests = recorders[t].tmp + 1]
    /\ recorders' = [recorders EXCEPT ![t].pc = "times"]
    /\ UNCHANGED MetricsFrame

\* request_times.append and, with a tool, tool_response_times[tool_used].append
AppendTimes(t) ==
    /\ recorders[t].pc = "times"
    /\ metrics' = [metrics EXCEPT
                      !.request_times = @ + 1,
                      !.tool_response_times =
                          IF recorders[t].tool_used # "" THEN @ + 1 ELSE @]
    /\ recorders' = [recorders EXCEPT ![t].pc =
                        IF recorders[t].error THEN "load_error" ELSE "done"]
    /\ UNCHANGED MetricsFrame

\* self.error_count += 1: the read
LoadError(t) ==
    /\ recorders[t].pc = "load_error"
    /\ recorders' = [recorders EXCEPT ![t] =
                        [@ EXCEPT !.pc = "store_error", !.tmp = metrics.error_count]]
    /\ UNCHANGED <<MetricsFrame, metrics>>

\* self.error_count += 1: the write
StoreError(t) ==
    /\ recorders[t].pc = "store_error"
    /\ metrics' = [metrics EXCEPT !.error_count = recorders[t].tmp + 1]
    /\ recorders' = [recorders EXCEPT ![t].pc = "done"]
    /\ UNCHANGED MetricsFrame

NextMetrics ==
    \E t \in Recorders :
        \/ RecordRequest(t) \/ LoadTotal(t) \/ StoreTotal(t) \/ AppendTimes(t)
        \/ LoadError(t) \/ StoreError(t)

SpecMetrics == InitMetrics /\ [][NextMetrics]_vars

(***************************************************************************)
(* Evaluation harness: ChatbotEvaluator.run_evaluation, a step per case    *)
(***************************************************************************)
MaxCases == 2

\* JSON null, which json.load gives as None: a text that no tool name equals
JsonNull == "<null>"

\* the cases of a dataset: a calculation, a knowledge question that leaves the
\* optional keys out, and a calculation whose expected_tool is null
EvalCases ==
    { [question |-> "Calculate 2 + 2", expected_answer |-> "4",
       expected_tool |-> "Math", category |-> "calculation"],
      [question |-> "What is GDPR?"],
      [question |-> "Calculate 3 * 3", expected_tool |-> JsonNull,
       category |-> "calculation"] }

EvalDatasets == UNION { [1..n -> EvalCases] : n \in 0..MaxCases }

\* what evaluate_strings of a labeled_score_string evaluator comes to: a score
\* with its reasoning, or an exception (the score is written as its digits,
\* so that it shares a field with "N/A" and "ERROR")
EvaluatorOutcomes ==
    { [ok |-> TRUE, score |-> "4", reasoning |-> "mostly supported"],
      [ok |-> TRUE, score |-> "5", reasoning |-> "fully supported"],
      [ok |-> FALSE, score |-> "", reasoning |-> "Invalid output"] }

\* the line that evaluate_faithfulness makes of a source, if any
ReferenceLine(source) ==
    IF "file" \in DOMAIN source THEN <<"Source: " \o source.file>>
    ELSE IF "source" \in DOMAIN source THEN <<"Source: " \o source.source>>
    ELSE <<>>

RECURSIVE ReferenceTexts(_, _)
\* reference_texts for the sources from the i-th on
ReferenceTexts(sources, i) ==
    IF i > Len(sources) THEN <<>>
    ELSE ReferenceLine(sources[i]) \o ReferenceTexts(sources, i + 1)

RECURSIVE JoinLines(_)
\* "\n".join(texts)
JoinLines(texts) ==
    IF texts = <<>> THEN ""
    ELSE IF Len(texts) = 1 THEN texts[1]
    ELSE texts[1] \o "\n" \o JoinLines(Tail(texts))

\* evaluate_faithfulness that lets the exception of the evaluator out
evaluate_faithfulness_NoExcept(question, answer, sources, outcome) ==
    LET reference == JoinLines(ReferenceTexts(sources, 1))
    IN  IF sources = <<>>
        THEN [score |-> "N/A", reasoning |-> "No sources provided", raised |-> FALSE]
        ELSE IF Strip(reference) = ""
        THEN [score |-> "N/A", reasoning |-> "No valid source content", raised |-> FALSE]
        ELSE IF outcome.ok
        THEN [score |-> outcome.score, reasoning |-> outcome.reasoning, raised |-> FALSE]
        ELSE [score |-> "ERROR", reasoning |-> outcome.reasoning, raised |-> TRUE]

\* ChatbotEvaluator.evaluate_faithfulness: raised tells whether an exception
\* leaves it, which is never
evaluate_faithfulness(question, answer, sources, outcome) ==
    LET reference == JoinLines(ReferenceTexts(sources, 1))
    IN  IF sources = <<>>
        THEN [score |-> "N/A", reasoning |-> "No sources provided", raised |-> FALSE]
        ELSE IF Strip(reference) = ""
        THEN [score |-> "N/A", reasoning |-> "No valid source content", raised |-> FALSE]
        ELSE IF outcome.ok
        THEN [score |-> outcome.score, reasoning |-> outcome.reasoning, raised |-> FALSE]
        ELSE [score |-> "ERROR", reasoning |-> outcome.reasoning, raised |-> FALSE]

\* ChatbotEvaluator.evaluate_relevance
evaluate_relevance(question, answer, outcome) ==
    IF outcome.ok
    THEN [score |-> outcome.score, reasoning |-> outcome.reasoning, raised |-> FALSE]
    ELSE [score |-> "ERROR", reasoning |-> outcome.reasoning, raised |-> FALSE]

\* ChatbotEvaluator.evaluate_tool_routing, for tools that are texts
evaluate_tool_routing(question, expected_tool, actual_tool) ==
    LET correct == Lower(expected_tool) = Lower(actual_tool)
    IN  [correct |-> correct, expected |-> expected_tool, actual |-> actual_tool,
         score |-> IF correct THEN 1 ELSE 0]

\* the collection of a score that takes "N/A" for the number 0
CollectScore_KeepNA(score_list, score) ==
    IF score = "N/A" THEN Append(score_list, 0)
    ELSE IF score # "ERROR" THEN Append(score_list, ParseNat(score, 0))
    ELSE score_list

\* run_evaluation: a score that is neither "N/A" nor "ERROR" is collected as float(score)
CollectScore(score_list, score) ==
    IF score \notin {"N/A", "ERROR"} THEN Append(score_list, ParseNat(score, 0))
    ELSE score_list

RECURSIVE Sum(_)
\* sum(score_list)
Sum(score_list) == IF score_list = <<>> THEN 0 ELSE Head(score_list) + Sum(Tail(score_list))

\* the number n / d, d > 0, in lowest terms
Ratio(n, d) == [num |-> n \div GCD(n, d), den |-> d \div GCD(n, d)]

\* _calculate_summary_stats: the summary of one metric
MetricSummary(score_list) ==
    IF score_list # <<>>
    THEN [mean |-> Ratio(Sum(score_list), Len(score_list)), count |-> Len(score_list),
          scores |-> score_list]
    ELSE [mean |-> Ratio(0, 1), count |-> 0, scores |-> <<>>]

\* the results that are no error results
Evaluated(results) ==
    LET evaluated(r) == "error" \notin DOMAIN r
    IN  SelectSeq(results, evaluated)

\* _calculate_summary_stats: the routing accuracy of each category
CategoryPerformance(results) ==
    LET ok == Evaluated(results)
        of(category) == { i \in DOMAIN ok : ok[i].category = category }
        correct(category) == { i \in of(category) : ok[i].tool_routing.correct }
    IN  [category \in { ok[i].category : i \in DOMAIN ok } |->
            [accuracy |-> Ratio(Cardinality(correct(category)), Cardinality(of(category))),
             correct |-> Cardinality(correct(category)),
             total |-> Cardinality(of(category))]]

\* ChatbotEvaluator._calculate_summary_stats
calculate_summary_stats(scores, results) ==
    [faithfulness |-> MetricSummary(scores.faithfulness),
     relevance |-> MetricSummary(scores.relevance),
     tool_routing |-> MetricSummary(scores.tool_routing),
     category_performance |-> CategoryPerformance(results)]

\* the chatbot of the evaluator has no search provider and no knowledge base:
\* its answers to knowledge questions carry no sources
InitEval == Init /\ ~tavily_client /\ ~serp_api /\ ~rag_tool

EvalFrame == <<now, concState, metricsState, routerState, routerHarness, calcHarness,
               environment>>

\* run_evaluation(dataset, session_id) up to the loop: without a session id a
\* session of "evaluation_user" is created
StartEvaluation ==
    /\ eval_pos = -1
    /\ \E dataset \in EvalDatasets :
          /\ eval_dataset' = dataset
          /\ eval_pos' = 0
          /\ \/ \E session_id \in FreshIds, committed \in BOOLEAN :
                   /\ create_session("evaluation_user", session_id, committed)
                   /\ eval_session' = session_id
             \/ \E session_id \in SessionIds :
                   /\ eval_session' = session_id
                   /\ UNCHANGED <<issued, db_sessions, last>>
    /\ UNCHANGED <<EvalFrame, memories, db_logs, nchats, eval_results, eval_scores,
                   eval_saved, eval_report>>

\* one turn of the loop of run_evaluation: the chat, the three evaluations, the
\* result, the scores and the row of evaluation_results, whose commit may
\* fail; an exception on the way leaves an error result
EvaluateCase ==
    /\ eval_pos >= 0 /\ eval_pos < Len(eval_dataset)
    /\ LET test_case == eval_dataset[eval_pos + 1]
       IN  \E c \in HandlingsOf({test_case.question}), committed \in BOOLEAN,
              f \in EvaluatorOutcomes, r \in EvaluatorOutcomes, saved \in BOOLEAN :
              LET faithfulness_result ==
                      evaluate_faithfulness(test_case.question, c.h.response, c.h.sources, f)
                  relevance_result == evaluate_relevance(test_case.question, c.h.response, r)
                  expected_tool == Get(test_case, "expected_tool", "rag")
                  routing_result ==
                      evaluate_tool_routing(test_case.question, expected_tool, c.category)
                  error == IF c.h.raised # "none" THEN c.h.raised
                           ELSE IF faithfulness_result.raised \/ relevance_result.raised
                           THEN f.reasoning
                           ELSE IF expected_tool = JsonNull
                           THEN "'NoneType' object has no attribute 'lower'"
                           ELSE ""
                  result == [question |-> test_case.question,
                             expected_answer |-> Get(test_case, "expected_answer", ""),
                             actual_answer |-> c.h.response,
                             tool_used |-> c.category,
                             sources |-> c.h.sources,
                             faithfulness |-> [score |-> faithfulness_result.score,
                                               reasoning |-> faithfulness_result.reasoning],
                             relevance |-> [score |-> relevance_result.score,
                                            reasoning |-> relevance_result.reasoning],
                             tool_routing |-> routing_result,
                             category |-> Get(test_case, "category", "unknown")]
              IN  /\ chat(c, eval_session, committed)
                  /\ eval_results' =
                        Append(eval_results,
                               IF error # ""
                               THEN [question |-> test_case.question, error |-> error]
                               ELSE result)
                  /\ eval_scores' =
                        IF error # "" THEN eval_scores
                        ELSE [faithfulness |-> CollectScore(eval_scores.faithfulness,
                                                            faithfulness_result.score),
                              relevance |-> CollectScore(eval_scores.relevance,
                                                         relevance_result.score),
                              tool_routing |-> Append(eval_scores.tool_routing,
                                                      routing_result.score)]
                  /\ eval_saved' = IF error = "" /\ saved
                                   THEN Append(eval_saved, test_case.question)
                                   ELSE eval_saved
    /\ eval_pos' = eval_pos + 1
    /\ UNCHANGED <<EvalFrame, db_sessions, issued, eval_dataset, eval_session, eval_report>>

\* run_evaluation after the loop: the summary and the report it returns
FinishEvaluation ==
    /\ eval_pos = Len(eval_dataset)
    /\ ~eval_report.returned
    /\ eval_report' =
          [returned |-> TRUE,
           timestamp |-> now,
           total_test_cases |-> Len(eval_dataset),
           successful_evaluations |-> Len(Evaluated(eval_results)),
           summary |-> calculate_summary_stats(eval_scores, eval_results),
           detailed_results |-> eval_results]
    /\ UNCHANGED <<EvalFrame, chatState, eval_dataset, eval_pos, eval_session,
                   eval_results, eval_scores, eval_saved>>

NextEval == StartEvaluation \/ EvaluateCase \/ FinishEvaluation

SpecEval == InitEval /\ [][NextEval]_vars

(***************************************************************************)
(* Claims about the router, checked under SpecRouter                       *)
(***************************************************************************)
\* s[i..j] is whitespace only
AllSpace(s, i, j) == \A n \in i..j : IsSpace(CharAt(s, n))

\* the text holds a digit, optional whitespace, one of ops, optional whitespace, a digit
NumberOpNumber(s, ops) ==
    \E i, k, m \in 1..Len(s) :
        /\ i < k /\ k < m
        /\ IsDigit(CharAt(s, i)) /\ CharAt(s, k) \in ops /\ IsDigit(CharAt(s, m))
        /\ AllSpace(s, i + 1, k - 1) /\ AllSpace(s, k + 1, m - 1)

\* the text holds one of the words, whatever the case of its letters
HasWord(s, words) == \E w \in words : Contains(Lower(s), w)

Categories == {"math", "web_search", "rag"}

\* C3: every query that holds <number> <op> <number> with op one of + - * / is
\* routed to "math", also when it holds a recency or a domain keyword.
C3_NumberOpNumberIsMath ==
    (rlast.op = "route" /\ NumberOpNumber(rlast.q, {"+", "-", "*", "/"}))
        => rlast.out = "math"

\* a query with an arithmetic pattern and a recency keyword was routed to math
C3_Witness ==
    /\ rlast.op = "route" /\ rlast.out = "math"
    /\ NumberOpNumber(rlast.q, {"+", "-", "*", "/"})
    /\ HasWord(rlast.q, WebKeywords)

\* C4: a query that holds a math indicator and two numbers joined by % is routed
\* to "math", as for the other four operators.
C4_PercentIsMath ==
    (rlast.op = "route" /\ HasWord(rlast.q, MathKeywords)
                       /\ NumberOpNumber(rlast.q, {"%"}))
        => rlast.out = "math"

\* C5: every query that holds a recency keyword (in any case) and no math
\* indicator is routed to "web_search", also when it holds a domain keyword.
C5_RecencyIsWebSearch ==
    (rlast.op = "route" /\ HasWord(rlast.q, WebKeywords)
                       /\ ~HasWord(rlast.q, MathKeywords))
        => rlast.out = "web_search"

\* a query with a recency and a domain keyword was routed to web_search
C5_Witness ==
    /\ rlast.op = "route" /\ rlast.out = "web_search"
    /\ HasWord(rlast.q, WebKeywords) /\ HasWord(rlast.q, RagKeywords)
    /\ ~HasWord(rlast.q, MathKeywords)

C7_RoutePure ==
    /\ []((rlast.op = "route" /\ rlast.q = rq /\ rfirst # "none") => rlast.out = rfirst)
    /\ [][UNCHANGED routerState]_vars

\* route(rq) was called again after another call and returned the same category
C7_Witness ==
    /\ rfirst # "none" /\ rbetween
    /\ rlast.op = "route" /\ rlast.q = rq /\ rlast.out = rfirst

(***************************************************************************)
(* Claims about the calculator, checked under SpecCalc                     *)
(***************************************************************************)
\* the allow-list: digits, + - * / ( ) . and the space
AllowList == {"0", "1", "2", "3", "4", "5", "6", "7", "8", "9",
              "+", "-", "*", "/", "(", ")", ".", " "}

HasDisallowed(s) == \E i \in 1..Len(s) : CharAt(s, i) \notin AllowList

StartsWith(s, prefix) == Len(s) >= Len(prefix) /\ SubSeq(s, 1, Len(prefix)) = prefix

Called == cout # NoOutcome

\* C8 as claimed: every expression that holds a character outside the allow-list
\* is answered with the fixed rejection text, and eval() is not invoked on it.
C8_RejectsEveryDisallowed ==
    (Called /\ HasDisallowed(cexpr))
        => (cout.text = RejectText /\ cout.evald = <<>>)

\* C8, amended: every expression that still holds a character outside the
\* allow-list once its leading and trailing whitespace is stripped is answered
\* with the fixed rejection text, and eval() is not invoked on it; eval() is
\* only ever handed texts made of allow-list characters.
C8_RejectsDisallowedAfterStrip ==
    /\ (Called /\ HasDisallowed(Strip(cexpr)))
          => (cout.text = RejectText /\ cout.evald = <<>>)
    /\ \A i \in 1..Len(cout.evald) : ~HasDisallowed(cout.evald[i])

\* an expression with a letter in it was rejected without evaluation
C8_Witness ==
    /\ Called /\ Contains(cexpr, "os") /\ ~HasDisallowed(SubSeq(cexpr, 1, 1))
    /\ cout.text = RejectText /\ cout.evald = <<>>

\* the text is <digits> / <zeros>, with optional spaces
DivisionByZeroForm(e) ==
    ~HasDisallowed(e) /\ \E k \in 2..(Len(e) - 1) :
        LET a == Strip(SubSeq(e, 1, k - 1))
            b == Strip(SubSeq(e, k + 1, Len(e)))
        IN  /\ CharAt(e, k) = "/"
            /\ a # "" /\ \A i \in 1..Len(a) : IsDigit(CharAt(a, i))
            /\ ~BadIntLiteral(a)
            /\ b # "" /\ \A i \in 1..Len(b) : CharAt(b, i) = "0"

\* C9: calculate() never raises and returns "Result: ..." or "Error:..."; a
\* division by zero gives exactly "Error: Division by zero", which neither the
\* rejection nor any other failure of the evaluation gives.
C9_NeverRaises ==
    Called =>
        /\ cout.raised = "none"
        /\ StartsWith(cout.text, "Result: ") \/ StartsWith(cout.text, "Error:")
        /\ DivisionByZeroForm(cexpr) => cout.text = DivisionByZeroText
        /\ cout.text = DivisionByZeroText => cout.exc = "ZeroDivisionError"
        /\ cout.exc = "none" /\ cout.evald # <<>> => StartsWith(cout.text, "Result: ")

\* a division by zero was reported
C9_Witness ==
    Called /\ DivisionByZeroForm(cexpr) /\ cout.text = DivisionByZeroText

\* the results TestMathTool expects
ExpectedResults ==
    { <<"2 + 2", "Result: 4">>, <<"10 - 5", "Result: 5">>, <<"3 * 4", "Result: 12">>,
      <<"15 / 3", "Result: 5.0">>, <<"2 ** 3", "Result: 8">>, <<"10 % 3", "Result: 1">>,
      <<"(2 + 3) * 4", "Result: 20">>, <<"2 * (5 + 3)", "Result: 16">>,
      <<"(10 - 2) / 4", "Result: 2.0">>, <<"2 + 3 * 4 - 1", "Result: 13">> }

\* C10: the well-formed expressions over + - * / ** % evaluate to
\* "Result: <value>"; "10 % 3" gives "Result: 1" and "2 ** 3" gives "Result: 8".
C10_EvaluatesArithmetic ==
    Called => \A t \in ExpectedResults : cexpr = t[1] => Contains(cout.text, t[2])

(***************************************************************************)
(* Claims about chat() end to end, checked under Spec                      *)
(***************************************************************************)
\* C1: after create_session, chat("Calculate 15% of 250000", sid) returns
\* tool_used "math", a response that holds 37500, and the one calculator source
\* whose expression is the message.
C1_PercentageEndToEnd ==
    (last.op = "chat" /\ last.message = "Calculate 15% of 250000"
                     /\ last.result.session_id \in issued)
        => /\ last.result.tool_used = "math"
           /\ Contains(last.result.response, "37500")
           /\ last.result.sources
                 = <<[source |-> "calculator", expression |-> last.message]>>

\* C2: with no search provider configured,
\* chat("What are the latest AI safety guidelines?", sid) returns tool_used
\* "web_search", the fixed unavailability message as its response, no sources.
C2_NoProviderEndToEnd ==
    (last.op = "chat" /\ last.message = "What are the latest AI safety guidelines?"
                     /\ ~tavily_client /\ ~serp_api
                     /\ ~StartsWith(last.result.response, "Error performing web search"))
        => /\ last.result.tool_used = "web_search"
           /\ last.result.response = WebUnavailableText
           /\ last.result.sources = <<>>

(***************************************************************************)
(* Claims about the handlers and the memory                                *)
(***************************************************************************)
\* the last call was a chat() that returned
ChatReturned == last.op = "chat" /\ last.raised = "none"

\* C11: for every query routed to math the math handler hands the calculator
\* the number-operator-number text of the query, the response reports its
\* value, and the one source returned has source "calculator".
C11_MathHandlerEvaluatesExpression ==
    (ChatReturned /\ last.result.tool_used = "math")
        => /\ NumberOpNumber(MathExpression(last.message), RouterOps)
           /\ Contains(last.result.response, "Result: ")
           /\ Len(last.result.sources) = 1
           /\ last.result.sources[1].source = "calculator"

\* C12: the history get_session_history returns has at most memory_window
\* turns, a turn being one user or assistant message.
C12_HistoryWithinWindow ==
    last.op = "get_session_history" => Len(last.history) <= memory_window

\* the memory of sid ends with the exchange (message, response)
EndsWithExchange(sid, message, response) ==
    /\ sid \in DOMAIN memories
    /\ Len(memories[sid]) >= 2
    /\ SubSeq(memories[sid], Len(memories[sid]) - 1, Len(memories[sid]))
          = <<Turn("user", message), Turn("assistant", response)>>

\* C13: after every chat() that returned, the memory of its session ends with
\* the user turn of the message and the assistant turn of the response
\* returned, on every route and every outcome.
C13_EveryChatRemembered ==
    ChatReturned
        => EndsWithExchange(last.session_id, last.message, last.result.response)

(***************************************************************************)
(* Claims about the log, the faults and the sources                        *)
(***************************************************************************)
\* C14: every chat() that returns appends exactly one entry to the log, with
\* the call's session id, message, response, tool and sources, and leaves the
\* entries that were there as they were.
C14_OneLogEntryPerChat ==
    [][(nchats' = nchats + 1 /\ last'.raised = "none")
          => db_logs' = Append(db_logs,
                               LogEntry(last'.session_id, last'.message,
                                        last'.result.response, last'.result.tool_used,
                                        last'.result.sources))]_vars

ResultFields == {"response", "sources", "tool_used", "routing_explanation", "session_id"}

\* the response and the sources are ones the handler of the category produces
AsHandlerProduced ==
    \E h \in Dispatch(last.result.tool_used, last.message) :
        h.response = last.result.response /\ h.sources = last.result.sources

\* chat() returned a record of the five fields for the routed category, and a
\* failed log write left the handler's response and sources as they were
ReturnsOrdinaryRecord ==
    /\ last.raised = "none"
    /\ DOMAIN last.result = ResultFields
    /\ last.result.tool_used = route(last.message)
    /\ last.result.session_id = last.session_id
    /\ ~last.committed => AsHandlerProduced

\* the response carries the text of the exceptions raised by the collaborators
CarriesDiagnostic(collaborators) ==
    \A f \in last.faults :
        f.by \in collaborators
            => StartsWith(last.result.response, "Error") /\ Contains(last.result.response, f.text)

C16_OneSyntheticSource ==
    (ChatReturned /\ last.result.tool_used \in {"web_search", "math"})
        => /\ Len(last.result.sources) = 1
           /\ last.result.sources[1].source
                 = (IF last.result.tool_used = "math" THEN "calculator" ELSE "web_search")

\* the last call was a chat() handled by the retrieval handler
RagHandled == last.op = "chat" /\ last.branch \in {"rag", "fallback"}

\* without a retriever: the fixed message, no sources, no call of the language
\* model, no exception
SoftFailure ==
    /\ last.result.response = RagUnavailableText
    /\ last.result.sources = <<>>
    /\ ~last.llm_called
    /\ last.raised = "none"

\* one source record per retrieved chunk, in rank order
OneSourcePerChunk ==
    /\ Len(last.result.sources) = Len(last.retrieved)
    /\ \A i \in 1..Len(last.retrieved) :
          last.result.sources[i].file = last.retrieved[i].metadata.source_file

LLMRaised == \E f \in last.faults : f.by = "llm"

\* C17 as claimed: without a retriever the retrieval handler returns the fixed
\* message, no sources, without calling the language model; with a retriever
\* it returns one source record per retrieved chunk, in rank order.
C17_RetrievalSoftFailure ==
    RagHandled
        => /\ ~rag_tool => SoftFailure
           /\ rag_tool => OneSourcePerChunk

\* C17, amended: without a retriever the retrieval handler returns the fixed
\* message, no sources, without calling the language model; with a retriever
\* it returns one source record per retrieved chunk, in rank order, when the
\* language model answers, and no source record when the language model raises.
C17_SoftFailureAndSourcesOnSuccess ==
    RagHandled
        => /\ ~rag_tool => SoftFailure
           /\ (rag_tool /\ ~LLMRaised) => OneSourcePerChunk
           /\ (rag_tool /\ LLMRaised) => last.result.sources = <<>>

\* a query was answered with the fixed message, no retriever being configured
C17_Witness ==
    RagHandled /\ ~rag_tool /\ SoftFailure /\ last.result.tool_used = "rag"

\* C18: search() consults tavily when it is configured, serpapi only when
\* tavily is not and serpapi is, none when neither is; a failure of the
\* provider consulted is returned as a "Search failed" text and the other
\* provider is not consulted.
C18_ProviderPriority ==
    (last.op = "chat" /\ last.branch = "web_search")
        => /\ last.search.consulted
                 = (IF tavily_client THEN <<"tavily">>
                    ELSE IF serp_api THEN <<"serpapi">> ELSE <<>>)
           /\ Len(last.search.consulted) <= 1
           /\ (\E f \in last.faults : f.by = "provider")
                 => StartsWith(last.search.text, "Search failed")
           /\ last.search.consulted = <<>> => last.search.text = WebUnavailableText

\* both providers configured, the first failed, the second was not consulted
C18_Witness ==
    /\ last.op = "chat" /\ last.branch = "web_search"
    /\ tavily_client /\ serp_api
    /\ \E f \in last.faults : f.by = "provider"
    /\ last.search.consulted = <<"tavily">>
    /\ StartsWith(last.search.text, "Search failed")

(***************************************************************************)
(* Claims about the frame of the session operations                        *)
(***************************************************************************)
\* the turns of the memory of sid, none when it has no memory
TurnsOf(mems, sid) == IF sid \in DOMAIN mems THEN mems[sid] ELSE <<>>

\* C19: clear_session(sid) leaves sid without memory, so that its history is
\* empty, and changes nothing else: the session rows, the log and the memory
\* of every other session stay as they were; without a memory of sid it
\* changes nothing.
C19_ClearSessionFrame ==
    [][last'.op = "clear_session"
          => /\ TurnsOf(memories', last'.session_id) = <<>>
             /\ db_sessions' = db_sessions
             /\ db_logs' = db_logs
             /\ \A s \in SessionIds \ {last'.session_id} :
                   /\ s \in DOMAIN memories' <=> s \in DOMAIN memories
                   /\ TurnsOf(memories', s) = TurnsOf(memories, s)
             /\ last'.session_id \notin DOMAIN memories => memories' = memories]_vars

\* a session with turns in its memory and an entry in the log was cleared,
\* another session having a memory
C19_Witness ==
    /\ last.op = "clear_session" /\ last.cleared > 0
    /\ LogsOf(db_logs, last.session_id) # <<>>
    /\ last.session_id \notin DOMAIN memories
    /\ \E s \in SessionIds \ {last.session_id} : s \in DOMAIN memories

SessionOps == {"chat", "get_session_history", "clear_session", "delete_session"}

StatsOps == {"get_session_stats", "DatabaseManager.get_session_stats"}

\* C21: once delete_session(sid) has removed a session, get_session_stats(sid)
\* reports "not found", not a statistics record with zero messages, and no
\* log entry of sid remains in the store.
C21_DeletedSessionNotFound ==
    [][(/\ last.op = "delete_session" /\ last.result /\ last.raised = "none"
        /\ last'.op \in StatsOps /\ last'.session_id = last.session_id)
          => /\ last'.result = SessionNotFound
             /\ LogsOf(db_logs', last.session_id) = <<>>]_vars

\* C22: create_session(user_id) returns an id that was never returned before
\* and that, when it returns, names a row of chat_sessions whose owner is
\* user_id.
C22_CreateSessionPersists ==
    [][last'.op = "create_session"
          => /\ last'.session_id \notin issued
             /\ \E row \in db_sessions' :
                   row.session_id = last'.session_id /\ row.user_id = last'.user_id]_vars

(***************************************************************************)
(* Claims about concurrent calls                                           *)
(***************************************************************************)
\* the exchange that the call of thread t adds to the memory
ExchangeOf(t) ==
    LET c == CHOOSE c \in HandlingsOf({ConcMessages[t]}) : TRUE
    IN  <<Turn("user", c.message), Turn("assistant", c.h.response)>>

\* msgs is made of complete exchanges, each one of a single call
CompletePairs(msgs) ==
    /\ Len(msgs) % 2 = 0
    /\ \A k \in 1..(Len(msgs) \div 2) :
          \E t \in ConcThreads : <<msgs[2 * k - 1], msgs[2 * k]>> = ExchangeOf(t)

AllReturned == \A t \in ConcThreads : threads[t].pc = "done"

\* C23: concurrent chat calls on one session id never interleave their
\* memory mutations: once the calls have returned, the history of every
\* session is a sequence of complete (user, assistant) pairs, each pair of
\* one call.
C23_PerSessionSerialization ==
    AllReturned => \A sid \in DOMAIN refs : CompletePairs(heap[refs[sid]])

\* C24: every request for a session id obtains the one memory object of that
\* session, also when two requests arrive before it exists, and no turn that
\* a request appended is lost to a second object.
C24_OneMemoryPerSession ==
    /\ \A t \in ConcThreads :
          threads[t].memory # 0 => threads[t].memory = refs[threads[t].session_id]
    /\ AllReturned =>
          \A t \in ConcThreads, i \in 1..2 :
             \E k \in DOMAIN heap[refs[threads[t].session_id]] :
                heap[refs[threads[t].session_id]][k] = ExchangeOf(t)[i]

AllRecorded == \A t \in Recorders : recorders[t].pc = "done"

\* C25: the counters are updated atomically: once N concurrent record_request
\* calls, E of them flagged as errors, have returned, total_requests is N and
\* error_count is E, and error_count <= total_requests in every state.
C25_CountersAtomic ==
    /\ metrics.error_count <= metrics.total_requests
    /\ AllRecorded =>
          /\ metrics.total_requests = Cardinality(Recorders)
          /\ metrics.error_count = Cardinality({ t \in Recorders : recorders[t].error })

(***************************************************************************)
(* Claims about the evaluation run                                         *)
(***************************************************************************)
\* the text of the exception of a failed evaluator
ScoringFailure == "Invalid output"

\* the result is no error result and its score of the metric is a number
NumericScore(r, metric) ==
    "error" \notin DOMAIN r /\ r[metric].score \notin {"N/A", "ERROR"}

NumericScores(results, metric) ==
    LET numeric(r) == NumericScore(r, metric)
        ok == SelectSeq(results, numeric)
    IN  [i \in 1..Len(ok) |-> ParseNat(ok[i][metric].score, 0)]

\* C27: for each metric the count of the summary is the number of evaluated
\* cases whose score is a number (faithfulness is "N/A" whenever the response
\* has no sources) and the mean is the sum of those scores divided by the
\* count, 0.0 with count 0 when there are none; the scores 4, 5, 3, 4 give
\* the mean 4.0 and the count 4.
C27_Aggregation ==
    /\ MetricSummary(<<4, 5, 3, 4>>) =
          [mean |-> Ratio(4, 1), count |-> 4, scores |-> <<4, 5, 3, 4>>]
    /\ eval_report.returned =>
          /\ \A metric \in {"faithfulness", "relevance"} :
                LET numbers == NumericScores(eval_report.detailed_results, metric)
                    summary == eval_report.summary[metric]
                IN  /\ summary.count = Len(numbers)
                    /\ summary.scores = numbers
                    /\ summary.mean.num * (IF numbers = <<>> THEN 1 ELSE Len(numbers))
                          = Sum(numbers) * summary.mean.den
                    /\ numbers = <<>> => summary.mean = Ratio(0, 1)
          /\ \A i \in 1..Len(eval_report.detailed_results) :
                LET r == eval_report.detailed_results[i]
                IN  ("error" \notin DOMAIN r /\ r.sources = <<>>)
                       => r.faithfulness.score = "N/A"

\* a report of two evaluated cases: the relevance scores 4 and 5 have the
\* mean 4.5, and one faithfulness score is "N/A", the other one a number
C27_Witness ==
    /\ eval_report.returned
    /\ eval_report.successful_evaluations = 2
    /\ eval_report.summary.relevance = [mean |-> Ratio(9, 2), count |-> 2, scores |-> <<4, 5>>]
    /\ eval_report.detailed_results[2].faithfulness.score = "N/A"
    /\ eval_report.summary.faithfulness.count = 1

(***************************************************************************)
(* Claims about retention, the integrity of the log and the queries        *)
(***************************************************************************)
\* the session of the row was created or had a chat logged at cutoff or later
ActiveSince(row, cutoff) ==
    \/ row.created_at >= cutoff
    \/ \E i \in DOMAIN db_logs :
          db_logs[i].session_id = row.session_id /\ db_logs[i].timestamp >= cutoff

\* C28: cleanup_old_sessions(days) removes exactly the sessions without
\* activity (creation or chat) in the last `days` days, with all their log
\* entries; a session with a chat in that period is never removed, and the
\* other sessions and log entries are unchanged.
C28_SweepOnInactivityOnly ==
    [][(last'.op = "cleanup_old_sessions" /\ last'.raised = "none")
          => LET swept == { row \in db_sessions : ~ActiveSince(row, now - last'.days) }
                 kept(e) == e.session_id \notin { row.session_id : row \in swept }
             IN  /\ db_sessions' = db_sessions \ swept
                 /\ db_logs' = SelectSeq(db_logs, kept)]_vars

\* C29: in every state reached by create_session, chat, clear_session,
\* delete_session and cleanup_old_sessions each log entry's session id names
\* a row of chat_sessions, and delete_session leaves no log entry of the id
\* it was called with.
C29_LogReferentialIntegrity ==
    [][/\ \A i \in DOMAIN db_logs' :
             \E row \in db_sessions' : row.session_id = db_logs'[i].session_id
       /\ (last'.op = "delete_session" /\ last'.raised = "none")
             => LogsOf(db_logs', last'.session_id) = <<>>]_vars

QueryOps == {"get_session_history", "get_session_stats", "DatabaseManager.get_session_stats"}

\* C30: get_session_history(sid) and get_session_stats(sid) change neither
\* the memories, nor a memory window, nor the store, for every sid, one that
\* was never used included.
C30_QueriesReadOnly ==
    [][last'.op \in QueryOps
          => /\ memories' = memories
             /\ db_sessions' = db_sessions
             /\ db_logs' = db_logs]_vars

====
